---- MODULE Spec2Model ----
(***************************************************************************)
(* Model of Engine/source/ts/collada/colladaAppMesh.cpp: ColladaAppMesh's  *)
(* construction of primitives (getPrimitives), the skin weight lookup      *)
(* (lookupSkinData) and the morph blend (getVertexData,                    *)
(* getMorphVertexData).                                                    *)
(*                                                                         *)
(* Abstractions.  A Point3F / Point2F / ColorI is one integer (the z, the  *)
(* y, one channel): the code treats the components alike except for the   *)
(* z flip of inverted meshes and the y flip of texcoords, which are kept.  *)
(* The 16-bit index block of 0x10000 vertices is blockSize vertices.       *)
(* A source element of the document is the array of its values.            *)
(* A skin weight is an exact rational, and the object offset a translation.*)
(***************************************************************************)
EXTENDS FiniteSets, Integers, Sequences, TLC

\* ------------------------------------------------------------------ bounds
\* Number of supported primitive elements of a <mesh>.
MaxPrims == 2
\* Number of triangles of a geometry, all primitive elements together.
MaxTris == 3
\* Number of [bone, weight] pairs of a skin's <vertex_weights>.
MaxPairs == 4
\* Number of targets of a morph, and of its weights.
MaxTargets == 2
\* Number of inputs of a primitive element.
MaxInputs == 3

\* --------------------------------------------------------------- constants
\* 0x10000: the number of vertices one 16-bit index block holds, at the two
\* scales the mesh is converted at.
BlockSizes == {4, 8}
\* -1: the raw index of an attribute the primitive has no input for.
NoIndex == -1
\* Point3F::Max and Point2F::Max: the data of an absent point, normal or uv.
PointMax == 99
\* ColorI(0,0,0): the data of an absent colour.
ColorAbsent == 0
\* An index-buffer slot that setSize has allocated and nothing has written.
Unwritten == -2
\* TSSkinMesh::BatchData::maxBonePerVert (scaled): the influences kept per
\* vertex.
MaxBonePerVert == 2
\* NULL: the pointer to an optional output array that is not allocated.
NullArray == -1000

\* ------------------------------------------------------- the source document
\* The <source> arrays of the base geometry. Position 8 repeats the value of
\* position 0, normals 0 and 1 are the same vector, colour 0 is black.
BasePoints  == <<10, 11, 12, 13, 14, 15, 16, 17, 10>>
BaseNormals == <<1, 1, 2>>
BaseColors  == <<0, 7>>
BaseUVs     == <<0, 1, 0, 1, 0, 1, 0, 1, 0>>
BaseUV2s    == <<3, 4>>

BaseGeom ==
  [points |-> BasePoints, normals |-> BaseNormals, colors |-> BaseColors,
   uvs |-> BaseUVs, uv2s |-> BaseUV2s]

\* A primitive element's inputs, as classifyInputs leaves them in offsets[]:
\* the offset of each stream in a corner's group of raw indices, -1 for none.
\* POSITION and TEXCOORD share offset 0, NORMAL is at 1, COLOR (if any) at 2.
PlainPrim ==
  [offsets |-> [Points |-> 0, Normals |-> 1, Colors |-> NoIndex, UVs |-> 0,
                UV2s |-> NoIndex],
   material |-> 0]
ColoredPrim ==
  [offsets |-> [Points |-> 0, Normals |-> 1, Colors |-> 2, UVs |-> 0,
                UV2s |-> NoIndex],
   material |-> 1]
PrimKinds == {PlainPrim, ColoredPrim}

\* The raw indices of the corners of the triangles a <p> element may hold:
\* one group <<position/uv, normal, colour>> per corner. The second triangle
\* shares the edge 1-2 with the first; the third has a corner that differs
\* from a corner of the second in the normal index only (same normal
\* vector), and two corners with the same position and different data.
TriangleSet ==
  { << <<0, 0, 0>>, <<1, 0, 0>>, <<2, 0, 0>> >>,
    << <<2, 0, 0>>, <<1, 0, 0>>, <<3, 0, 0>> >>,
    << <<3, 1, 0>>, <<4, 0, 0>>, <<3, 2, 1>> >>,
    << <<6, 0, 0>>, <<7, 0, 0>>, <<8, 0, 0>> >> }

\* The skin: the WEIGHT source array, and the [bone, weight index] pairs a
\* <v> element may hold: three weights of distinct size, an empty (zero)
\* weight, a negative weight and a pair without a bone.
SkinWeights == <<0, 1, 2, 3, -1>>

PairSet == {<<0, 1>>, <<1, 2>>, <<2, 3>>, <<0, 0>>, <<1, 4>>, <<-1, 2>>}

\* The triangle of the skinned geometry: its first and last corner are the
\* same source vertex with different normals.
SkinTriangle == << <<3, 1, 0>>, <<4, 0, 0>>, <<3, 2, 1>> >>

\* The morph: its base geometry has one primitive element with all five
\* inputs (COLOR and the second TEXCOORD share offset 2); a target has the
\* same layout over its own sources, or positions and first texcoords only.
FullPrim ==
  [offsets |-> [Points |-> 0, Normals |-> 1, Colors |-> 2, UVs |-> 0,
                UV2s |-> 2],
   material |-> 0]
BarePrim ==
  [offsets |-> [Points |-> 0, Normals |-> NoIndex, Colors |-> NoIndex,
                UVs |-> 0, UV2s |-> NoIndex],
   material |-> 0]

\* A primitive element without a TEXCOORD input.
NoUVPrim ==
  [offsets |-> [Points |-> 0, Normals |-> 1, Colors |-> NoIndex,
                UVs |-> NoIndex, UV2s |-> NoIndex],
   material |-> 0]

TargetSources ==
  [points |-> <<20, 21, 22, 23, 24, 25, 26, 27, 20>>, normals |-> <<3, 4, 6>>,
   colors |-> <<1, 2>>, uvs |-> <<2, 3, 2, 3, 2, 3, 2, 3, 2>>,
   uv2s |-> <<5, 6>>]

MorphBaseGeometry == [src |-> BaseGeom, prims |-> <<FullPrim>>]
\* A base geometry of two primitive elements, the first without normals,
\* colours and second texcoords.
BareFullGeometry == [src |-> BaseGeom, prims |-> <<BarePrim, FullPrim>>]
\* The same with the elements in the other order.
FullBareGeometry == [src |-> BaseGeom, prims |-> <<FullPrim, BarePrim>>]
\* A base geometry without texcoords.
NoUVGeometry == [src |-> BaseGeom, prims |-> <<NoUVPrim>>]
MorphBases ==
  {MorphBaseGeometry, BareFullGeometry, FullBareGeometry, NoUVGeometry}
\* The triangle of a primitive element of a base geometry.
PlainTriangle == << <<0, 0, 0>>, <<1, 0, 0>>, <<2, 0, 0>> >>
FullTarget == [src |-> TargetSources, prims |-> <<FullPrim>>]
BareTarget == [src |-> TargetSources, prims |-> <<BarePrim>>]
TargetKinds == {FullTarget, BareTarget}

\* MORPHMETHODTYPE, the values of a MORPH_WEIGHT array, the translation of
\* the object offset, and what newly allocated vector elements hold.
MethodTypes == {"NORMALIZED", "RELATIVE"}
WeightValues == {0, 1, 2}
ObjectOffsets == {0, 5}
HeapFills == {-5, 6}

VARIABLES
  pc,            \* the position of the conversion
  blockSize,     \* 0x10000, scaled: a power of two
  invertMeshes,  \* mAppNode->invertMeshes
  meshPrims,     \* the supported primitive elements seen so far (their inputs)
  mPrimitives,   \* Vector<TSDrawPrimitive>: [start, numElements, matIndex]
  mIndices,      \* Vector<U32>: the index buffer
  mVertTuples,   \* Vector<VertTuple>: the deduplicated vertex list
  tupleMap,      \* VertTupleMap of getPrimitives: a set of [key, value]
  iPrim, iTri, numTriangles, dstIndex,   \* locals of getPrimitives
  cornerLog,     \* history: per index-buffer slot, the corner that wrote it
  numClears,     \* history: how often tupleMap.clear() has run
  padding,       \* history: the places of mVertTuples the padding filled
  built,         \* history: a getPrimitives call has left primitives
  calledAgain,   \* history: getPrimitives was called after such a call
  weights_vcount,  \* <vcount>: the number of pairs of each source vertex
  weights_v,       \* <v>: the [bone, weight index] pairs, flat
  vindicesOffset,  \* the offset of each source vertex's pairs in <v>
  mVertexIndex, mBoneIndex, mWeight,   \* the bone influence records
  iVert, iWeight, nonZeroWeightCount, tooManyWeightsWarning,
                   \* locals of lookupSkinData
  dividedByZero,   \* history: 1.0f / invTotalWeight ran with a total of 0
  isMorph,         \* the mesh's geometry is a <morph>, not a <geometry>
  morphMethod, baseGeometry, targetGeoms, srcWeights,
                   \* the morph: method, source, MORPH_TARGET, MORPH_WEIGHT
  objectOffset,    \* the object offset, a translation
  heapFill,        \* the content of vector elements nothing has written
  mPoints, mNormals, mColors, mUVs, mUV2s,   \* the mesh's vertex data
  targetWeights, baseAt, iTarget,   \* locals of getMorphVertexData
  overrun,         \* history: a base array was indexed outside its vector
  accessed,        \* history: the accessor calls of getVertexData
  inputs,          \* the input array of a primitive element, in order
  hasSet,          \* the inputs are of the shape that has a set number
  sortedInputs,    \* MeshStreams: per stream, the input classified for it
  iInput, iStream, \* the positions of classifyInputs and readInputs
  readers,         \* per stream, what initSourceReader returned
  nullDeref        \* history: a NULL pointer was dereferenced

builtVars == <<blockSize, invertMeshes, meshPrims, mPrimitives, mIndices,
               mVertTuples, tupleMap, iPrim, iTri, numTriangles, dstIndex,
               cornerLog, numClears, padding, built>>

meshVars == <<builtVars, calledAgain>>

primVars == <<pc, meshVars>>

skinVars == <<weights_vcount, weights_v, vindicesOffset, mVertexIndex,
              mBoneIndex, mWeight, iVert, iWeight, nonZeroWeightCount,
              tooManyWeightsWarning, dividedByZero>>

morphVars == <<isMorph, morphMethod, baseGeometry, targetGeoms, srcWeights,
               objectOffset, heapFill, mPoints, mNormals, mColors, mUVs,
               mUV2s, targetWeights, baseAt, iTarget, overrun, accessed>>

streamVars == <<inputs, hasSet, sortedInputs, iInput, iStream, readers,
                nullDeref>>

vars == <<primVars, skinVars, morphVars, streamVars>>

\* ------------------------------------------------------------------ helpers
Last(s) == s[Len(s)]

Repeat(x, n) == [i \in 1..n |-> x]

Min(a, b) == IF a < b THEN a ELSE b

\* -------------------------------------------------------------- MeshStreams
\* _SourceReader::size() and the get...Value accessors: a reader that was
\* never initialised holds nothing; an element index outside the source
\* array reads whatever lies there.
OutOfRange == -77

ReaderSize(reader) == Len(reader)

ReaderValue(reader, i) ==
  IF i >= 0 /\ i < Len(reader) THEN reader[i + 1] ELSE OutOfRange

\* MeshStreams::readInputs: each reader is initialised from the source of the
\* input classified into its slot, and stays empty without such an input.
ReadInputs(geom, prim) ==
  [mPoints  |-> IF prim.offsets.Points  >= 0 THEN geom.points  ELSE <<>>,
   mNormals |-> IF prim.offsets.Normals >= 0 THEN geom.normals ELSE <<>>,
   mColors  |-> IF prim.offsets.Colors  >= 0 THEN geom.colors  ELSE <<>>,
   mUVs     |-> IF prim.offsets.UVs     >= 0 THEN geom.uvs     ELSE <<>>,
   mUV2s    |-> IF prim.offsets.UV2s    >= 0 THEN geom.uv2s    ELSE <<>>]

\* ---------------------------------------------------------------- VertTuple
\* DictHash::hash(const VertTuple&): the raw position index.
HashByNormal(data) == data.mNormal

DictHash(data) == data.mVertex

\* VertTuple::operator== (declared in colladaAppMesh.h): equality of the five
\* data fields.
VertTupleEq(a, b) ==
  /\ a.mDataVertex = b.mDataVertex
  /\ a.mDataNormal = b.mDataNormal
  /\ a.mDataColor  = b.mDataColor
  /\ a.mDataUV     = b.mDataUV
  /\ a.mDataUV2    = b.mDataUV2

\* Map<VertTuple,S32>::find: the entries of the key's hash chain whose key
\* equals it (at most one, as insert follows a failed find).
TupleMapFind(map, tuple) ==
  {e \in map : DictHash(e.key) = DictHash(tuple) /\ VertTupleEq(e.key, tuple)}

\* Lines 588-600: the tuple of one corner, from its group of raw indices.
RawIndex(offset, corner) == IF offset >= 0 THEN corner[offset + 1] ELSE NoIndex

MakeTuple(prim, p, corner, streams) ==
  LET v  == RawIndex(p.offsets.Points, corner)
      n  == RawIndex(p.offsets.Normals, corner)
      c  == RawIndex(p.offsets.Colors, corner)
      u  == RawIndex(p.offsets.UVs, corner)
      u2 == RawIndex(p.offsets.UV2s, corner)
  IN [mPrim |-> prim, mVertex |-> v, mNormal |-> n, mColor |-> c, mUV |-> u,
      mUV2 |-> u2,
      mDataVertex |-> IF v > -1 THEN ReaderValue(streams.mPoints, v) ELSE PointMax,
      mDataNormal |-> IF n > -1 THEN ReaderValue(streams.mNormals, n) ELSE PointMax,
      mDataColor  |-> IF c > -1 THEN ReaderValue(streams.mColors, c) ELSE ColorAbsent,
      mDataUV     |-> IF u > -1 THEN ReaderValue(streams.mUVs, u) ELSE PointMax,
      mDataUV2    |-> IF u2 > -1 THEN ReaderValue(streams.mUV2s, u2) ELSE PointMax]

\* ------------------------------------------------------------ getPrimitives
\* Line 559: ((size-1) ^ (size+2)) & 0x10000, the block bit of the last vertex
\* in use differs from the block bit of the last vertex the triangle can add.
BlockBit(n) == (n \div blockSize) % 2

NeverSplit(size) == FALSE

NeedSplit(size) == size > 0 /\ BlockBit(size - 1) # BlockBit(size + 2)

\* Lines 562-563: pad the vertex list up to the next block boundary with
\* copies of its last tuple.
NoPadding(vts) == vts

PadVertTuples(vts) ==
  vts \o Repeat(Last(vts), (blockSize - (Len(vts) % blockSize)) % blockSize)

\* Lines 566-577: split the primitive at the current triangle.
SplitKeepCount(prims, tri, nTris, indSize) ==
  LET remaining == (nTris - tri) * 3
      opened == IF tri > 0 THEN Append(prims, Last(prims)) ELSE prims
  IN [opened EXCEPT ![Len(opened)].numElements = remaining,
                    ![Len(opened)].start = indSize - remaining]

SplitPrimitive(prims, tri, nTris, indSize) ==
  LET remaining == (nTris - tri) * 3
      closed == IF tri > 0
                THEN [prims EXCEPT ![Len(prims)].numElements = @ - remaining]
                ELSE prims
      opened == IF tri > 0 THEN Append(closed, Last(closed)) ELSE closed
  IN [opened EXCEPT ![Len(opened)].numElements = remaining,
                    ![Len(opened)].start = indSize - remaining]

\* Lines 609-614: the slot of corner v in the triangle's three indices.
ForwardSlot(v) == v

WindingSlot(v) == IF invertMeshes THEN v ELSE 2 - v

\* What the log keeps of corner v writing index idx to a slot written
\* before times already: its tuple, the number of map clears before it, the
\* corner, and the triangle dstIndex stands at.
LogEntry(tuple, v, epoch, idx, before) ==
  [tuple |-> tuple, epoch |-> epoch, corner |-> v, tri |-> dstIndex \div 3,
   index |-> idx, writes |-> before + 1]

\* Lines 602-614 for one corner: look the tuple up, add it on a miss, write
\* its index. st = [vts, map, ind, log].
InsertAlways(st, tuple, v, epoch) ==
  LET slot == dstIndex + WindingSlot(v) + 1
  IN [vts |-> Append(st.vts, tuple),
      map |-> st.map \cup {[key |-> tuple, value |-> Len(st.vts)]},
      ind |-> [st.ind EXCEPT ![slot] = Len(st.vts)],
      log |-> [st.log EXCEPT ![slot] = LogEntry(tuple, v, epoch, Len(st.vts),
                                               st.log[slot].writes)]]

AddCorner(st, tuple, v, epoch) ==
  LET hit  == TupleMapFind(st.map, tuple)
      miss == hit = {}
      idx  == IF miss THEN Len(st.vts) ELSE (CHOOSE e \in hit : TRUE).value
      slot == dstIndex + WindingSlot(v) + 1
  IN [vts |-> IF miss THEN Append(st.vts, tuple) ELSE st.vts,
      map |-> IF miss THEN st.map \cup {[key |-> tuple, value |-> idx]}
                      ELSE st.map,
      ind |-> [st.ind EXCEPT ![slot] = idx],
      log |-> [st.log EXCEPT ![slot] = LogEntry(tuple, v, epoch, idx,
                                               st.log[slot].writes)]]

NoCorner ==
  [tuple |-> <<>>, epoch |-> -1, corner |-> -1, tri |-> -1, index |-> -1,
   writes |-> 0]

\* Lines 477-481: getPrimitives, which builds the primitives only once.
NeverBuilt == FALSE

\* Lines 479-481: "Only do this once".
AlreadyBuilt == Len(mPrimitives) > 0

GetPrimitives ==
  /\ pc \in {"start", "done"}
  /\ IF AlreadyBuilt
     THEN pc' = "done" /\ UNCHANGED <<meshPrims, iPrim, tupleMap>>
     ELSE pc' = "primLoop" /\ meshPrims' = <<>> /\ iPrim' = 0 /\ tupleMap' = {}
  /\ calledAgain' = (calledAgain \/ built)
  /\ UNCHANGED <<blockSize, invertMeshes, mPrimitives, mIndices, mVertTuples,
                 iTri, numTriangles, dstIndex, cornerLog, numClears, padding,
                 built>>
  /\ UNCHANGED <<skinVars, morphVars, streamVars>>

\* Line 508 with iPrim = meshPrims.size(): the loop over the primitive
\* elements ends.
PrimLoopEnd ==
  /\ pc = "primLoop"
  /\ pc' = "done"
  /\ built' = (built \/ Len(mPrimitives) > 0)
  /\ UNCHANGED <<blockSize, invertMeshes, meshPrims, mPrimitives, mIndices, mVertTuples,
                 tupleMap, iPrim, iTri, numTriangles, dstIndex, cornerLog,
                 numClears, padding, calledAgain>>
  /\ UNCHANGED <<skinVars, morphVars, streamVars>>

\* Lines 508-551: the next primitive element, with n triangles. An element
\* without triangles is skipped.
PrimBegin ==
  /\ pc = "primLoop"
  /\ iPrim < MaxPrims
  /\ \E p \in PrimKinds, n \in 0..(MaxTris - (Len(mIndices) \div 3)) :
       /\ meshPrims' = Append(meshPrims, p)
       /\ IF n = 0
          THEN /\ iPrim' = iPrim + 1
               /\ UNCHANGED <<pc, mPrimitives, mIndices, iTri, numTriangles,
                              dstIndex, cornerLog>>
          ELSE /\ mPrimitives' =
                    Append(mPrimitives, [start |-> Len(mIndices),
                                         numElements |-> n * 3,
                                         matIndex |-> p.material])
               /\ mIndices' = mIndices \o Repeat(Unwritten, n * 3)
               /\ cornerLog' = cornerLog \o Repeat(NoCorner, n * 3)
               /\ dstIndex' = Len(mIndices)
               /\ numTriangles' = n
               /\ iTri' = 0
               /\ pc' = "triLoop"
               /\ UNCHANGED iPrim
  /\ UNCHANGED <<blockSize, invertMeshes, mVertTuples, tupleMap, numClears,
                 padding, built, calledAgain>>
  /\ UNCHANGED <<skinVars, morphVars, streamVars>>

\* Lines 553-619: one triangle of the current primitive element.
Triangle ==
  /\ pc = "triLoop"
  /\ iTri < numTriangles
  /\ \E tri \in TriangleSet :
       LET split   == NeedSplit(Len(mVertTuples))
           vts0    == IF split THEN PadVertTuples(mVertTuples) ELSE mVertTuples
           prims0  == IF split
                      THEN SplitPrimitive(mPrimitives, iTri, numTriangles,
                                          Len(mIndices))
                      ELSE mPrimitives
           map0    == IF split THEN {} ELSE tupleMap
           epoch   == IF split THEN numClears + 1 ELSE numClears
           streams == ReadInputs(BaseGeom, meshPrims[iPrim + 1])
           tuple(v) == MakeTuple(iPrim, meshPrims[iPrim + 1], tri[v + 1], streams)
           st0 == [vts |-> vts0, map |-> map0, ind |-> mIndices, log |-> cornerLog]
           st1 == AddCorner(st0, tuple(0), 0, epoch)
           st2 == AddCorner(st1, tuple(1), 1, epoch)
           st3 == AddCorner(st2, tuple(2), 2, epoch)
       IN /\ mVertTuples' = st3.vts
          /\ tupleMap' = st3.map
          /\ mIndices' = st3.ind
          /\ cornerLog' = st3.log
          /\ mPrimitives' = prims0
          /\ numClears' = epoch
          /\ padding' = padding \cup ((Len(mVertTuples) + 1)..Len(vts0))
  /\ dstIndex' = dstIndex + 3
  /\ iTri' = iTri + 1
  /\ UNCHANGED <<pc, blockSize, invertMeshes, meshPrims, iPrim, numTriangles,
                 built, calledAgain>>
  /\ UNCHANGED <<skinVars, morphVars, streamVars>>

\* Line 553 with iTri = numTriangles: on to the next primitive element.
TriLoopEnd ==
  /\ pc = "triLoop"
  /\ iTri = numTriangles
  /\ iPrim' = iPrim + 1
  /\ pc' = "primLoop"
  /\ UNCHANGED <<blockSize, invertMeshes, meshPrims, mPrimitives, mIndices, mVertTuples,
                 tupleMap, iTri, numTriangles, dstIndex, cornerLog, numClears,
                 padding, built, calledAgain>>
  /\ UNCHANGED <<skinVars, morphVars, streamVars>>

\* A mesh whose skin data has not been looked up.
SkinIdle ==
  /\ vindicesOffset = <<>>
  /\ mVertexIndex = <<>>
  /\ mBoneIndex = <<>>
  /\ mWeight = <<>>
  /\ iVert = 0
  /\ iWeight = 0
  /\ nonZeroWeightCount = 0
  /\ tooManyWeightsWarning = FALSE
  /\ dividedByZero = FALSE

\* The pointers of getMorphVertexData to the base arrays, none set.
NoArrays ==
  [points |-> NullArray, norms |-> NullArray, colors |-> NullArray,
   uvs |-> NullArray, uv2s |-> NullArray]

\* A mesh that has not been locked: no vertex data.
NotLocked ==
  /\ mPoints = <<>>
  /\ mNormals = <<>>
  /\ mColors = <<>>
  /\ mUVs = <<>>
  /\ mUV2s = <<>>
  /\ targetWeights = <<>>
  /\ baseAt = NoArrays
  /\ iTarget = 0
  /\ overrun = FALSE
  /\ accessed = {}

\* A mesh of a plain <geometry>.
NoMorph ==
  /\ isMorph = FALSE
  /\ morphMethod = "RELATIVE"
  /\ targetGeoms = <<>>
  /\ srcWeights = <<>>

MorphIdle ==
  /\ NoMorph
  /\ baseGeometry = MorphBaseGeometry
  /\ objectOffset = 0
  /\ heapFill = 6
  /\ NotLocked

\* ------------------------------------------------------------ mesh streams
\* eSourceType (lines 113-123).
Points == 0
Normals == 1
Colors == 2
UVs == 3
UV2s == 4
Joints == 5
Weights == 6
InvBindMatrices == 7
NumStreams == 8

\* Line 156: 0xFFFFFFFF, the set read off a slot that holds no input with a
\* set number; scaled, larger than every set number of the inputs.
UnsetSet == 1000

\* An input: its semantic, its set number (read only from the shape that has
\* one) and what findInputSource finds for it: a <source>, a <vertices> whose
\* POSITION input has a source, a <vertices> whose POSITION input has none,
\* or nothing.
Input(semantic, set, source) ==
  [semantic |-> semantic, set |-> set, source |-> source]

InputKinds ==
  {Input("TEXCOORD", s, "source") : s \in 0..2}
    \cup {Input("COLOR", s, "source") : s \in 0..1}
    \cup {Input("NORMAL", 0, "none"), Input("POSITION", 0, "source")}
    \cup {Input("VERTEX", 0, src) : src \in {"vertices", "unsourced", "none"}}

\* Lines 233-234: the cleared output array; 0 is the null input, and an
\* input is named by its place in the input array.
NoInputs == [i \in 0..(NumStreams - 1) |-> 0]

\* The readers after reset (lines 211-221).
NoReaders == [i \in 0..(NumStreams - 1) |-> "reset"]

\* No primitive element's inputs are being read.
StreamIdle ==
  /\ inputs = <<>>
  /\ hasSet = TRUE
  /\ sortedInputs = NoInputs
  /\ iInput = 0
  /\ iStream = 0
  /\ readers = NoReaders
  /\ nullDeref = FALSE

\* The mesh after construction (lines 319-333), about to be converted.
Init ==
  /\ pc = "start"
  /\ blockSize \in BlockSizes
  /\ invertMeshes \in BOOLEAN
  /\ meshPrims = <<>>
  /\ mPrimitives = <<>>
  /\ mIndices = <<>>
  /\ mVertTuples = <<>>
  /\ tupleMap = {}
  /\ iPrim = 0
  /\ iTri = 0
  /\ numTriangles = 0
  /\ dstIndex = 0
  /\ cornerLog = <<>>
  /\ numClears = 0
  /\ padding = {}
  /\ built = FALSE
  /\ calledAgain = FALSE
  /\ weights_vcount = <<>>
  /\ weights_v = <<>>
  /\ SkinIdle
  /\ MorphIdle
  /\ StreamIdle

Next ==
  \/ GetPrimitives
  \/ PrimLoopEnd
  \/ PrimBegin
  \/ Triangle
  \/ TriLoopEnd

Spec == Init /\ [][Next]_vars

\* ----------------------------------------------------------- lookupSkinData
\* A weight is a rational <<numerator, denominator>>: normalisation multiplies
\* by 1 / total, and a denominator of 0 is the infinity that 1.0f / 0 gives.
Weight(w) == <<w, 1>>

\* Lines 962-970: the offset of each source vertex's pairs, a running sum of
\* twice its count.
RECURSIVE OffsetsFrom(_, _, _)
OffsetsFrom(vcount, i, offset) ==
  IF i > Len(vcount) THEN <<>>
  ELSE <<offset>> \o OffsetsFrom(vcount, i + 1, offset + vcount[i] * 2)

VindicesOffsets(vcount) == OffsetsFrom(vcount, 1, 0)

\* Lines 983-984: the pair iw of the source vertex v, read at vindices[iw*2]
\* and vindices[iw*2 + 1] of a flat array of ints.
PairAt(v, iw) == weights_v[(vindicesOffset[v + 1] \div 2) + iw + 1]

\* Line 987: an empty weight, which is ignored.
NoBoneOnly(bIndex, bWeight) == bIndex < 0

IsEmptyWeight(bIndex, bWeight) == bIndex < 0 \/ bWeight = 0

\* Line 991: the vertex already has all the influences it may keep.
NeverAtCap(count) == FALSE

AtCap(count) == count >= MaxBonePerVert

\* Lines 1005-1014: the index of the smallest of the last maxBonePerVert
\* weights, the first one among equals.
RECURSIVE MinIndexFrom(_, _, _)
MinIndexFrom(weights, i, minIndex) ==
  IF i > Len(weights) THEN minIndex
  ELSE IF weights[i][1] < weights[minIndex][1]
       THEN MinIndexFrom(weights, i + 1, i)
       ELSE MinIndexFrom(weights, i + 1, minIndex)

MinIndex(weights) ==
  MinIndexFrom(weights, Len(weights) - MaxBonePerVert + 2,
               Len(weights) - MaxBonePerVert + 1)

\* Lines 1034-1040: the records of the vertex of record first, which are
\* contiguous, and the sum of their weights.
RECURSIVE GroupEnd(_)
GroupEnd(i) ==
  IF i > Len(mWeight) \/ mVertexIndex[i] # mVertexIndex[iWeight + 1] THEN i
  ELSE GroupEnd(i + 1)

RECURSIVE SumWeights(_, _)
SumWeights(from, to) ==
  IF from >= to THEN 0 ELSE mWeight[from][1] + SumWeights(from + 1, to)

\* The skinned mesh: the state getPrimitives leaves for a geometry of one
\* primitive element with the triangle SkinTriangle.
SkinVertTuples ==
  [v \in 1..3 |-> MakeTuple(0, PlainPrim, SkinTriangle[v],
                            ReadInputs(BaseGeom, PlainPrim))]

\* The mesh state getPrimitives leaves for a geometry of one primitive
\* element prim with one triangle of three different tuples vts.
BuiltMesh(prim, vts) ==
  /\ blockSize = 4
  /\ meshPrims = <<prim>>
  /\ mPrimitives = <<[start |-> 0, numElements |-> 3,
                      matIndex |-> prim.material]>>
  /\ mIndices = [k \in 1..3 |-> WindingSlot(k - 1)]
  /\ mVertTuples = vts
  /\ tupleMap = {[key |-> vts[v], value |-> v - 1] : v \in 1..3}
  /\ iPrim = 1
  /\ iTri = 1
  /\ numTriangles = 1
  /\ dstIndex = 3
  /\ cornerLog = [k \in 1..3 |->
                    [tuple |-> vts[WindingSlot(k - 1) + 1], epoch |-> 0,
                     corner |-> WindingSlot(k - 1), tri |-> 0,
                     index |-> WindingSlot(k - 1), writes |-> 1]]
  /\ numClears = 0
  /\ padding = {}
  /\ built = TRUE
  /\ calledAgain = FALSE

\* The mesh state getPrimitives leaves for a geometry of two primitive
\* elements p0 and p1 with one triangle each, of six different tuples vts.
BuiltMeshOfTwo(p0, p1, vts) ==
  /\ blockSize = 8
  /\ meshPrims = <<p0, p1>>
  /\ mPrimitives = <<[start |-> 0, numElements |-> 3, matIndex |-> p0.material],
                     [start |-> 3, numElements |-> 3, matIndex |-> p1.material]>>
  /\ mIndices = [k \in 1..6 |->
                   3 * ((k - 1) \div 3) + WindingSlot((k - 1) % 3)]
  /\ mVertTuples = vts
  /\ tupleMap = {[key |-> vts[v], value |-> v - 1] : v \in 1..6}
  /\ iPrim = 2
  /\ iTri = 1
  /\ numTriangles = 1
  /\ dstIndex = 6
  /\ cornerLog = [k \in 1..6 |->
                    [tuple |-> vts[3 * ((k - 1) \div 3)
                                     + WindingSlot((k - 1) % 3) + 1],
                     epoch |-> 0,
                     corner |-> WindingSlot((k - 1) % 3),
                     tri |-> (k - 1) \div 3,
                     index |-> 3 * ((k - 1) \div 3)
                                 + WindingSlot((k - 1) % 3),
                     writes |-> 1]]
  /\ numClears = 0
  /\ padding = {}
  /\ built = TRUE
  /\ calledAgain = FALSE

SkinMesh == invertMeshes = FALSE /\ BuiltMesh(PlainPrim, SkinVertTuples)

\* The source vertices the skinned geometry uses, which alone have pairs.
SkinVertA == 3
SkinVertB == 4

\* A skinned mesh whose primitives are built: the skin's <vertex_weights> is
\* any list of at most MaxPairs pairs.
SkinInit ==
  /\ pc = "skinStart"
  /\ SkinMesh
  /\ \E a, b \in 0..MaxPairs :
       /\ a + b <= MaxPairs
       /\ weights_vcount = [i \in 1..Len(BasePoints) |->
                              IF i = SkinVertA + 1 THEN a
                              ELSE IF i = SkinVertB + 1 THEN b ELSE 0]
       /\ weights_v \in [1..(a + b) -> PairSet]
  /\ SkinIdle
  /\ MorphIdle
  /\ StreamIdle

\* Lines 937-973: lookupSkinData, which looks the skin data up only once.
LookupSkinData ==
  /\ pc \in {"skinStart", "skinDone"}
  /\ IF Len(mWeight) > 0
     THEN /\ pc' = "skinDone"
          /\ UNCHANGED <<vindicesOffset, iVert>>
     ELSE /\ vindicesOffset' = VindicesOffsets(weights_vcount)
          /\ iVert' = 0
          /\ pc' = "skinVert"
  /\ UNCHANGED <<weights_vcount, weights_v, mVertexIndex, mBoneIndex, mWeight, iWeight, nonZeroWeightCount,
                 tooManyWeightsWarning, dividedByZero>>
  /\ UNCHANGED <<meshVars, morphVars, streamVars>>

\* Lines 974-979: the next output vertex, or the end of the vertices.
SkinVertex ==
  /\ pc = "skinVert"
  /\ IF iVert < Len(mVertTuples)
     THEN pc' = "skinWeight" /\ nonZeroWeightCount' = 0 /\ iWeight' = 0
     ELSE pc' = "skinNormalize" /\ iWeight' = 0 /\ UNCHANGED nonZeroWeightCount
  /\ UNCHANGED <<weights_vcount, weights_v, vindicesOffset, mVertexIndex,
                 mBoneIndex, mWeight, iVert, tooManyWeightsWarning,
                 dividedByZero>>
  /\ UNCHANGED <<meshVars, morphVars, streamVars>>

\* Lines 981-1026: one pair of the source vertex of the output vertex iVert.
SkinWeight ==
  /\ pc = "skinWeight"
  /\ LET v == mVertTuples[iVert + 1].mVertex
     IN IF iWeight >= weights_vcount[v + 1]
        THEN /\ iVert' = iVert + 1
             /\ pc' = "skinVert"
             /\ UNCHANGED <<iWeight, mVertexIndex, mBoneIndex, mWeight,
                            nonZeroWeightCount, tooManyWeightsWarning>>
        ELSE LET bIndex  == PairAt(v, iWeight)[1]
                 bWeight == ReaderValue(SkinWeights, PairAt(v, iWeight)[2])
             IN /\ iWeight' = iWeight + 1
                /\ UNCHANGED <<pc, iVert>>
                /\ IF IsEmptyWeight(bIndex, bWeight)
                   THEN UNCHANGED <<mVertexIndex, mBoneIndex, mWeight,
                                    nonZeroWeightCount, tooManyWeightsWarning>>
                   ELSE IF AtCap(nonZeroWeightCount)
                   THEN /\ tooManyWeightsWarning' =
                             (tooManyWeightsWarning
                                \/ weights_vcount[v + 1] > MaxBonePerVert)
                        /\ mBoneIndex' =
                             [mBoneIndex EXCEPT ![MinIndex(mWeight)] = bIndex]
                        /\ mWeight' =
                             [mWeight EXCEPT ![MinIndex(mWeight)] = Weight(bWeight)]
                        /\ UNCHANGED <<mVertexIndex, nonZeroWeightCount>>
                   ELSE /\ mVertexIndex' = Append(mVertexIndex, iVert)
                        /\ mBoneIndex' = Append(mBoneIndex, bIndex)
                        /\ mWeight' = Append(mWeight, Weight(bWeight))
                        /\ nonZeroWeightCount' = nonZeroWeightCount + 1
                        /\ UNCHANGED tooManyWeightsWarning
  /\ UNCHANGED <<weights_vcount, weights_v, vindicesOffset, dividedByZero>>
  /\ UNCHANGED <<meshVars, morphVars, streamVars>>

\* Lines 1029-1046: normalise the weights of the next vertex that has
\* records, or end.
SkinNormalize ==
  /\ pc = "skinNormalize"
  /\ IF iWeight < Len(mWeight)
     THEN LET iLast == GroupEnd(iWeight + 1)
              total == SumWeights(iWeight + 1, iLast)
          IN /\ mWeight' = [k \in 1..Len(mWeight) |->
                              IF k > iWeight /\ k < iLast
                              THEN <<mWeight[k][1], mWeight[k][2] * total>>
                              ELSE mWeight[k]]
             /\ dividedByZero' = (dividedByZero \/ total = 0)
             /\ iWeight' = iLast - 1
             /\ UNCHANGED pc
     ELSE /\ pc' = "skinDone"
          /\ UNCHANGED <<mWeight, dividedByZero, iWeight>>
  /\ UNCHANGED <<weights_vcount, weights_v, vindicesOffset, mVertexIndex,
                 mBoneIndex, iVert, nonZeroWeightCount, tooManyWeightsWarning>>
  /\ UNCHANGED <<meshVars, morphVars, streamVars>>

SkinNext ==
  \/ LookupSkinData
  \/ SkinVertex
  \/ SkinWeight
  \/ SkinNormalize

SkinSpec == SkinInit /\ [][SkinNext]_vars

\* ------------------------------------------------------------ getVertexData
\* The material's texture transform is left out: no material of the
\* documents modelled has an effect extension (appMat->effectExt is null).
VertexCount == Len(mVertTuples)

\* Vector::setSize to n more elements.
Grow(vec, n) == vec \o Repeat(heapFill, n)

\* The range test in front of every optional accessor call.
HasValue(reader, i) == i >= 0 /\ i < ReaderSize(reader)

\* Lines 693-694 and 716-717: the z flip of inverted meshes; lines 703 and
\* 750: the y flip of texcoords.
FlipZ(z) == IF invertMeshes THEN -z ELSE z

NoFlip(y) == y

FlipY(y) == 1 - y

\* Lines 689-696, 700-703: the value of a position and of a first texcoord.
PointValue(streams, tuple) ==
  FlipZ(ReaderValue(streams.mPoints, tuple.mVertex)) + objectOffset

UVValue(streams, tuple) == FlipY(ReaderValue(streams.mUVs, tuple.mUV))

\* Lines 708-719, 722-732, 735-751: an optional attribute of vertex iVert.
\* Its array is allocated, as VertexCount more elements of the vector, when
\* vertex 0 has the attribute; the value is written if the array is set.
OptionalValue(st, vec, at, iv, present, value) ==
  LET alloc == present /\ st[at] = NullArray /\ iv = 0
      v     == IF alloc THEN Grow(st[vec], VertexCount) ELSE st[vec]
      a     == IF alloc THEN Len(v) - VertexCount ELSE st[at]
  IN IF present /\ a # NullArray
     THEN [st EXCEPT ![vec] = [v EXCEPT ![a + iv + 1] = value], ![at] = a]
     ELSE st

\* A call of a reader's accessor: getPoint3FValue, getPoint2FValue or
\* getColor, with the index given and the reader's size.
Call(name, reader, index) ==
  [reader |-> name, index |-> index, size |-> ReaderSize(reader)]

\* Lines 689, 700: the accessors called for every vertex in append mode, and
\* after the range test otherwise.
MandatoryCalls(appendValues, name, reader, index) ==
  IF appendValues \/ HasValue(reader, index)
  THEN {Call(name, reader, index)} ELSE {}

\* Lines 714, 730, 749: the accessors called after the range test, if the
\* array is set.
OptionalCalls(at, name, reader, index) ==
  IF HasValue(reader, index) /\ at # NullArray
  THEN {Call(name, reader, index)} ELSE {}

\* Lines 682-752: the body of the vertex loop for vertex iv, whose primitive
\* the geometry has.
VertexValues(geom, appendValues, iv, st) ==
  LET tuple   == mVertTuples[iv + 1]
      streams == ReadInputs(geom.src, geom.prims[tuple.mPrim + 1])
      s1 == IF appendValues \/ HasValue(streams.mPoints, tuple.mVertex)
            THEN [st EXCEPT !.points[st.pointsAt + iv + 1] =
                              PointValue(streams, tuple)]
            ELSE st
      s2 == IF appendValues \/ HasValue(streams.mUVs, tuple.mUV)
            THEN [s1 EXCEPT !.uvs[s1.uvsAt + iv + 1] = UVValue(streams, tuple)]
            ELSE s1
      s3 == OptionalValue(s2, "norms", "normsAt", iv,
                          HasValue(streams.mNormals, tuple.mNormal),
                          FlipZ(ReaderValue(streams.mNormals, tuple.mNormal)))
      s4 == OptionalValue(s3, "colors", "colorsAt", iv,
                          HasValue(streams.mColors, tuple.mColor),
                          ReaderValue(streams.mColors, tuple.mColor))
      s5 == OptionalValue(s4, "uv2s", "uv2sAt", iv,
                          HasValue(streams.mUV2s, tuple.mUV2),
                          FlipY(ReaderValue(streams.mUV2s, tuple.mUV2)))
  IN [s5 EXCEPT !.lastPrimitive = tuple.mPrim,
                !.calls = @ \cup MandatoryCalls(appendValues, "mPoints",
                                               streams.mPoints, tuple.mVertex)
                            \cup MandatoryCalls(appendValues, "mUVs",
                                               streams.mUVs, tuple.mUV)
                            \cup OptionalCalls(s5.normsAt, "mNormals",
                                              streams.mNormals, tuple.mNormal)
                            \cup OptionalCalls(s5.colorsAt, "mColors",
                                              streams.mColors, tuple.mColor)
                            \cup OptionalCalls(s5.uv2sAt, "mUV2s",
                                              streams.mUV2s, tuple.mUV2)]

\* Lines 660-752: the vertex loop, which stops at a vertex whose primitive
\* the geometry does not have.
RECURSIVE VertexLoop(_, _, _, _)
VertexLoop(geom, appendValues, iv, st) ==
  IF iv >= VertexCount THEN st
  ELSE IF mVertTuples[iv + 1].mPrim # st.lastPrimitive
            /\ Len(geom.prims) <= mVertTuples[iv + 1].mPrim
  THEN [st EXCEPT !.failed = TRUE]
  ELSE VertexLoop(geom, appendValues, iv + 1,
                  VertexValues(geom, appendValues, iv, st))

\* Lines 626-756: getVertexData on the vectors v = [points, norms, colors,
\* uvs, uv2s]; the result has the vectors, whether the loop failed, and the
\* accessor calls made.
GetVertexData(geom, v, appendValues) ==
  IF Len(mPrimitives) = 0 THEN v @@ [failed |-> FALSE, calls |-> {}]
  ELSE
    LET points == IF appendValues THEN Grow(v.points, VertexCount) ELSE v.points
        uvs    == IF appendValues THEN Grow(v.uvs, VertexCount) ELSE v.uvs
        st == VertexLoop(geom, appendValues, 0,
                [points |-> points, norms |-> v.norms, colors |-> v.colors,
                 uvs |-> uvs, uv2s |-> v.uv2s,
                 pointsAt |-> Len(points) - VertexCount,
                 uvsAt |-> Len(uvs) - VertexCount,
                 normsAt |-> NullArray, colorsAt |-> NullArray,
                 uv2sAt |-> NullArray, lastPrimitive |-> -1,
                 failed |-> FALSE, calls |-> {}])
    IN [points |-> st.points, norms |-> st.norms, colors |-> st.colors,
        uvs |-> st.uvs, uv2s |-> st.uv2s, failed |-> st.failed,
        calls |-> st.calls]

\* The mesh's vertex data as the vectors of a getVertexData call.
MeshVectors ==
  [points |-> mPoints, norms |-> mNormals, colors |-> mColors, uvs |-> mUVs,
   uv2s |-> mUV2s]

\* ------------------------------------------------------- getMorphVertexData
\* ColorI::operator* (F32) and operator+=, on one 8-bit channel.
ColorScale(c, w) == (c * w) % 256

ColorAdd(a, b) == (a + b) % 256

\* mClampF.
ClampF(x, lo, hi) == IF x < lo THEN lo ELSE IF x > hi THEN hi ELSE x

RECURSIVE SumOf(_)
SumOf(s) == IF s = <<>> THEN 0 ELSE Head(s) + SumOf(Tail(s))

\* Lines 799-801: a weight of zero for every target without one.
PadWeights(weights, nTargets) ==
  IF Len(weights) < nTargets
  THEN weights \o Repeat(0, nTargets - Len(weights))
  ELSE weights

\* Lines 812-817: the pointers to the base data, the last VertexCount
\* elements of each vector; colours and second texcoords may have none.
BaseArrays(v) ==
  [points |-> Len(v.points) - VertexCount,
   norms  |-> Len(v.norms) - VertexCount,
   uvs    |-> Len(v.uvs) - VertexCount,
   colors |-> IF Len(v.colors) > 0 THEN Len(v.colors) - VertexCount
              ELSE NullArray,
   uv2s   |-> IF Len(v.uv2s) > 0 THEN Len(v.uv2s) - VertexCount
              ELSE NullArray]

\* The elements at + 1 .. at + VertexCount of a vector, through a pointer.
InArray(k, at) == at # NullArray /\ k > at /\ k <= at + VertexCount

\* A base array that does not lie inside its vector.
OutOfVector(at, vec) ==
  at # NullArray /\ (at < 0 \/ at + VertexCount > Len(vec))

\* Lines 830-839: the scaling loops index the points, normals and texcoords
\* arrays, and the second texcoords array if it is set.
ScaledOutside(v, at) ==
  \/ OutOfVector(at.points, v.points)
  \/ OutOfVector(at.norms, v.norms)
  \/ OutOfVector(at.uvs, v.uvs)
  \/ OutOfVector(at.uv2s, v.uv2s)

\* Lines 858-881: the copy and the blend of a target index all five arrays,
\* the colours and second texcoords arrays if they are set.
BlendedOutside(v, at) ==
  ScaledOutside(v, at) \/ OutOfVector(at.colors, v.colors)

\* Where the conversion stands after indexing the base arrays: past the
\* end of a vector it may stop, or go on with whatever the memory holds.
AfterIndexing(outside, next) ==
  IF outside THEN {next, "crashed"} ELSE {next}

\* Lines 831-839: array[iVert] *= weightSum.
ScaleArray(vec, at, w) ==
  [k \in 1..Len(vec) |-> IF InArray(k, at) THEN vec[k] * w ELSE vec[k]]

\* Lines 857-861: Vector::set(array, VertexCount), a copy of the base data.
CopyArray(vec, at) ==
  IF at = NullArray THEN <<>>
  ELSE [k \in 1..VertexCount |->
          IF at + k \in 1..Len(vec) THEN vec[at + k] ELSE heapFill]

\* Lines 866-882: array[iVert] += target[iVert] * weight.
AddArray(vec, at, target, w) ==
  [k \in 1..Len(vec) |->
     IF InArray(k, at) THEN vec[k] + target[k - at] * w ELSE vec[k]]

AddColors(vec, at, target, w) ==
  [k \in 1..Len(vec) |->
     IF InArray(k, at) THEN ColorAdd(vec[k], ColorScale(target[k - at], w))
     ELSE vec[k]]

\* The triangle of the morph's base geometry, and the mesh built from it.
MorphVertTuples ==
  [v \in 1..3 |-> MakeTuple(0, FullPrim, SkinTriangle[v],
                            ReadInputs(BaseGeom, FullPrim))]

\* The tuples of a base geometry of two primitive elements.
TriangleOf(prim) == IF prim = BarePrim THEN PlainTriangle ELSE SkinTriangle

\* The tuples of a base geometry of one primitive element.
VertTuplesOfOne(src, p0) ==
  [v \in 1..3 |-> MakeTuple(0, p0, TriangleOf(p0)[v], ReadInputs(src, p0))]

VertTuplesOfTwo(src, p0, p1) ==
  [v \in 1..6 |->
     IF v <= 3
     THEN MakeTuple(0, p0, TriangleOf(p0)[v], ReadInputs(src, p0))
     ELSE MakeTuple(1, p1, TriangleOf(p1)[v - 3], ReadInputs(src, p1))]

\* The mesh built from a base geometry.
MeshOf(geom) ==
  IF Len(geom.prims) = 1
  THEN BuiltMesh(geom.prims[1], VertTuplesOfOne(geom.src, geom.prims[1]))
  ELSE BuiltMeshOfTwo(geom.prims[1], geom.prims[2],
                      VertTuplesOfTwo(geom.src, geom.prims[1], geom.prims[2]))

\* A mesh whose primitives are built and that is about to be locked: a plain
\* geometry, or a morph of at most MaxTargets targets and weights.
MorphInit ==
  /\ pc = "lockMesh"
  /\ invertMeshes \in BOOLEAN
  /\ baseGeometry \in MorphBases
  /\ MeshOf(baseGeometry)
  /\ weights_vcount = <<>>
  /\ weights_v = <<>>
  /\ SkinIdle
  /\ StreamIdle
  /\ objectOffset \in ObjectOffsets
  /\ heapFill \in HeapFills
  /\ \/ NoMorph
     \/ /\ isMorph = TRUE
        /\ morphMethod \in MethodTypes
        /\ \E n \in 0..MaxTargets : targetGeoms \in [1..n -> TargetKinds]
        /\ \E n \in 0..MaxTargets : srcWeights \in [1..n -> WeightValues]
  /\ NotLocked

\* Lines 886-935: lockMesh of a plain geometry. getPrimitives (line 925)
\* finds the primitives built and returns.
LockMesh ==
  /\ pc = "lockMesh"
  /\ ~isMorph
  /\ LET v == GetVertexData(baseGeometry, MeshVectors, TRUE)
     IN /\ mPoints' = v.points
        /\ mNormals' = v.norms
        /\ mColors' = v.colors
        /\ mUVs' = v.uvs
        /\ mUV2s' = v.uv2s
        /\ accessed' = accessed \cup v.calls
  /\ pc' = "locked"
  /\ UNCHANGED <<isMorph, morphMethod, baseGeometry, targetGeoms, srcWeights,
                 objectOffset, heapFill, targetWeights, baseAt, iTarget,
                 overrun>>
  /\ calledAgain' = (calledAgain \/ built)
  /\ UNCHANGED <<builtVars, skinVars, streamVars>>

\* Lines 758-840: getMorphVertexData up to the target loop: the targets and
\* weights, the base data and its scaling in the normalized method.
GetMorphVertexData ==
  /\ pc = "lockMesh"
  /\ isMorph
  /\ LET weights == PadWeights(srcWeights, Len(targetGeoms))
         v  == GetVertexData(baseGeometry, MeshVectors, TRUE)
         at == BaseArrays(v)
         weightSum == IF morphMethod = "NORMALIZED"
                      THEN ClampF(1 - SumOf(weights), 0, 1)
                      ELSE 1
     IN /\ targetWeights' = weights
        /\ baseAt' = at
        /\ overrun' = (morphMethod = "NORMALIZED" /\ ScaledOutside(v, at))
        /\ pc' \in AfterIndexing(morphMethod = "NORMALIZED"
                                   /\ ScaledOutside(v, at), "morphTargets")
        /\ mPoints' = ScaleArray(v.points, at.points, weightSum)
        /\ mNormals' = ScaleArray(v.norms, at.norms, weightSum)
        /\ mUVs' = ScaleArray(v.uvs, at.uvs, weightSum)
        /\ mUV2s' = ScaleArray(v.uv2s, at.uv2s, weightSum)
        /\ mColors' = v.colors
        /\ accessed' = accessed \cup v.calls
  /\ iTarget' = 0
  /\ UNCHANGED <<isMorph, morphMethod, baseGeometry, targetGeoms, srcWeights,
                 objectOffset, heapFill>>
  /\ calledAgain' = (calledAgain \/ built)
  /\ UNCHANGED <<builtVars, skinVars, streamVars>>

\* Lines 843-883: one target of the morph.
MorphTarget ==
  /\ pc = "morphTargets"
  /\ iTarget < Len(targetGeoms)
  /\ LET w == targetWeights[iTarget + 1]
         t == GetVertexData(targetGeoms[iTarget + 1],
                [points |-> CopyArray(mPoints, baseAt.points),
                 norms  |-> CopyArray(mNormals, baseAt.norms),
                 colors |-> CopyArray(mColors, baseAt.colors),
                 uvs    |-> CopyArray(mUVs, baseAt.uvs),
                 uv2s   |-> CopyArray(mUV2s, baseAt.uv2s)],
                FALSE)
     IN IF w = 0
        THEN UNCHANGED <<pc, mPoints, mNormals, mColors, mUVs, mUV2s,
                         accessed, overrun>>
        ELSE /\ accessed' = accessed \cup t.calls
             /\ overrun' = (overrun \/ BlendedOutside(MeshVectors, baseAt))
             /\ pc' \in AfterIndexing(BlendedOutside(MeshVectors, baseAt), pc)
             /\ mPoints' = AddArray(mPoints, baseAt.points, t.points, w)
             /\ mNormals' = AddArray(mNormals, baseAt.norms, t.norms, w)
             /\ mUVs' = AddArray(mUVs, baseAt.uvs, t.uvs, w)
             /\ mUV2s' = AddArray(mUV2s, baseAt.uv2s, t.uv2s, w)
             /\ mColors' = AddColors(mColors, baseAt.colors, t.colors, w)
  /\ iTarget' = iTarget + 1
  /\ UNCHANGED <<isMorph, morphMethod, baseGeometry, targetGeoms,
                 srcWeights, objectOffset, heapFill, targetWeights, baseAt>>
  /\ UNCHANGED <<meshVars, skinVars, streamVars>>

\* Line 843: the end of the target loop.
MorphEnd ==
  /\ pc = "morphTargets"
  /\ iTarget >= Len(targetGeoms)
  /\ pc' = "locked"
  /\ UNCHANGED <<meshVars, skinVars, morphVars, streamVars>>

MorphNext ==
  \/ LockMesh
  \/ GetMorphVertexData
  \/ MorphTarget
  \/ MorphEnd

MorphSpec == MorphInit /\ [][MorphNext]_vars

\* ------------------------------------------------- reading the inputs
\* Lines 150-151, 155-156: the set of the input to classify, and the set
\* read off a slot.
NewSet(n) == IF hasSet THEN inputs[n].set ELSE 0

SlotSet(sorted, i) ==
  IF hasSet /\ sorted[i] # 0 THEN inputs[sorted[i]].set ELSE UnsetSet

\* Lines 158-160: the copy loop, ascending, and the store.
RECURSIVE ShiftFrom(_, _, _)
ShiftFrom(sorted, j, end) ==
  IF j > end THEN sorted
  ELSE ShiftFrom([sorted EXCEPT ![j] = sorted[j - 1]], j + 1, end)

\* Lines 143-164: selectInput of input n in the slots start..end.
RECURSIVE SelectFrom(_, _, _, _)
SelectFrom(sorted, n, i, end) ==
  IF i > end THEN sorted
  ELSE IF NewSet(n) < SlotSet(sorted, i)
  THEN [ShiftFrom(sorted, i + 1, end) EXCEPT ![i] = n]
  ELSE SelectFrom(sorted, n, i + 1, end)

SelectInput(sorted, n, start, end) == SelectFrom(sorted, n, start, end)

\* Lines 240-262: the slots an input of a semantic is selected into.
SlotsOf(semantic) ==
  CASE semantic = "POSITION" -> <<Points, Points>>
    [] semantic = "NORMAL" -> <<Normals, Normals>>
    [] semantic = "COLOR" -> <<Colors, Colors>>
    [] semantic = "TEXCOORD" -> <<UVs, UV2s>>

\* A primitive element's input array of at most MaxInputs inputs, of either
\* shape, about to be read.
StreamInit ==
  /\ pc = "classify"
  /\ blockSize = 4
  /\ invertMeshes = FALSE
  /\ meshPrims = <<>>
  /\ mPrimitives = <<>>
  /\ mIndices = <<>>
  /\ mVertTuples = <<>>
  /\ tupleMap = {}
  /\ iPrim = 0
  /\ iTri = 0
  /\ numTriangles = 0
  /\ dstIndex = 0
  /\ cornerLog = <<>>
  /\ numClears = 0
  /\ padding = {}
  /\ built = FALSE
  /\ calledAgain = FALSE
  /\ weights_vcount = <<>>
  /\ weights_v = <<>>
  /\ SkinIdle
  /\ MorphIdle
  /\ \E n \in 0..MaxInputs : inputs \in [1..n -> InputKinds]
  /\ hasSet \in BOOLEAN
  /\ sortedInputs = NoInputs
  /\ iInput = 0
  /\ iStream = 0
  /\ readers = NoReaders
  /\ nullDeref = FALSE

\* Lines 240-262: one input of classifyInputs. The <vertices> of a VERTEX
\* input has a POSITION input; a VERTEX input that resolves to nothing makes
\* vertices->getInput_array() act on a null pointer.
ClassifyInput ==
  /\ pc = "classify"
  /\ iInput < Len(inputs)
  /\ LET n     == iInput + 1
         input == inputs[n]
     IN IF input.semantic = "VERTEX"
        THEN IF input.source = "none"
             THEN /\ nullDeref' = TRUE
                  /\ \/ /\ pc' = "crashed"
                        /\ UNCHANGED <<sortedInputs, iInput>>
                     \/ /\ iInput' = iInput + 1
                        /\ UNCHANGED <<pc, sortedInputs>>
             ELSE /\ sortedInputs' = [sortedInputs EXCEPT ![Points] = n]
                  /\ iInput' = iInput + 1
                  /\ UNCHANGED <<pc, nullDeref>>
        ELSE /\ sortedInputs' = SelectInput(sortedInputs, n,
                                            SlotsOf(input.semantic)[1],
                                            SlotsOf(input.semantic)[2])
             /\ iInput' = iInput + 1
             /\ UNCHANGED <<pc, nullDeref>>
  /\ UNCHANGED <<inputs, hasSet, iStream, readers>>
  /\ UNCHANGED <<meshVars, skinVars, morphVars>>

\* Line 238: the end of the input loop; readInputs goes on to the readers.
ClassifyEnd ==
  /\ pc = "classify"
  /\ iInput >= Len(inputs)
  /\ pc' = "readers"
  /\ UNCHANGED <<meshVars, skinVars, morphVars, streamVars>>

\* Lines 166-196: initSourceReader of stream iStream, called by readInputs
\* (lines 283-311). element->getElementType() acts on the null pointer that
\* findInputSource returns for an input without a source element.
InitSourceReader ==
  /\ pc = "readers"
  /\ iStream < NumStreams
  /\ LET n == sortedInputs[iStream]
     IN IF n = 0
        THEN /\ readers' = [readers EXCEPT ![iStream] = "failed"]
             /\ iStream' = iStream + 1
             /\ UNCHANGED <<pc, nullDeref>>
        ELSE IF inputs[n].source = "none"
        THEN /\ nullDeref' = TRUE
             /\ \/ /\ pc' = "crashed"
                   /\ UNCHANGED <<readers, iStream>>
                \/ /\ readers' = [readers EXCEPT ![iStream] = "failed"]
                   /\ iStream' = iStream + 1
                   /\ UNCHANGED pc
        ELSE /\ readers' =
                  [readers EXCEPT ![iStream] =
                     IF inputs[n].source = "unsourced" THEN "failed"
                     ELSE "initialized"]
             /\ iStream' = iStream + 1
             /\ UNCHANGED <<pc, nullDeref>>
  /\ UNCHANGED <<inputs, hasSet, sortedInputs, iInput>>
  /\ UNCHANGED <<meshVars, skinVars, morphVars>>

\* Line 313: readInputs returns.
ReadInputsEnd ==
  /\ pc = "readers"
  /\ iStream >= NumStreams
  /\ pc' = "streamsDone"
  /\ UNCHANGED <<meshVars, skinVars, morphVars, streamVars>>

StreamNext ==
  \/ ClassifyInput
  \/ ClassifyEnd
  \/ InitSourceReader
  \/ ReadInputsEnd

StreamSpec == StreamInit /\ [][StreamNext]_vars

\* ------------------------------------------------------------------ claims
\* The index-buffer slots written so far, and those of one primitive.
Written == {k \in 1..Len(mIndices) : mIndices[k] # Unwritten}

PrimSlots(p) == (p.start + 1)..(p.start + p.numElements)

Block(i) == i \div blockSize

\* The fields the tuple map tells tuples apart by.
KeyOf(t) == <<t.mVertex, t.mDataVertex, t.mDataNormal, t.mDataColor,
              t.mDataUV, t.mDataUV2>>

\* Which attributes a tuple has a raw index for.
Presence(t) == <<t.mVertex > -1, t.mNormal > -1, t.mColor > -1, t.mUV > -1,
                 t.mUV2 > -1>>

UniqueKeys == {KeyOf(cornerLog[k].tuple) : k \in Written}

\* C1: after getPrimitives, all indices of one primitive lie in one block.
C1_OneBlockPerPrimitive ==
  pc = "done" =>
    \A p \in 1..Len(mPrimitives) :
      \A a, b \in PrimSlots(mPrimitives[p]) :
        Block(mIndices[a]) = Block(mIndices[b])

\* C1 witness: a primitive of two triangles was split in its middle and the
\* part after the split indexes the second block.
C1_Witness ==
  /\ pc = "done"
  /\ \E p \in 2..Len(mPrimitives) :
       /\ mPrimitives[p - 1].numElements >= 6
       /\ \A a \in PrimSlots(mPrimitives[p]) : Block(mIndices[a]) = 1
       /\ cornerLog[mPrimitives[p].start].tuple.mPrim
            = cornerLog[mPrimitives[p].start + 1].tuple.mPrim

C3_ExactlyTwoPrimitives ==
  (pc = "done" /\ Len(meshPrims) = 1 /\ Cardinality(UniqueKeys) = blockSize + 1)
    => /\ Len(mPrimitives) = 2
       /\ \A a \in PrimSlots(mPrimitives[1]) : mIndices[a] < blockSize
       /\ \A a \in PrimSlots(mPrimitives[2]) : mIndices[a] >= blockSize

\* C3 amended: such a geometry gives at least two primitives; the vertex list
\* is padded up to blockSize with copies of the last tuple of the first
\* block, the first primitive indexes [0, blockSize) and every later one
\* indexes blockSize and above.
C3_AtLeastTwoPrimitives ==
  (pc = "done" /\ Len(meshPrims) = 1 /\ Cardinality(UniqueKeys) = blockSize + 1)
    => /\ Len(mPrimitives) >= 2
       /\ Len(mVertTuples) > blockSize
       /\ \A a \in PrimSlots(mPrimitives[1]) : mIndices[a] < blockSize
       /\ \A p \in 2..Len(mPrimitives) :
            \A a \in PrimSlots(mPrimitives[p]) : mIndices[a] >= blockSize
       /\ LET used == {mIndices[a] : a \in PrimSlots(mPrimitives[1])}
              top  == CHOOSE i \in used : \A j \in used : j <= i
          IN \A i \in (top + 1)..(blockSize - 1) :
               mVertTuples[i + 1] = mVertTuples[top + 1]

\* C3 witness: blockSize + 1 unique tuples, two primitives, and the first
\* block was padded.
C3_Witness ==
  /\ pc = "done"
  /\ Len(meshPrims) = 1
  /\ Cardinality(UniqueKeys) = blockSize + 1
  /\ Len(mPrimitives) = 2
  /\ mVertTuples[blockSize] = mVertTuples[blockSize - 1]
  /\ mVertTuples[blockSize] # mVertTuples[blockSize + 1]

\* C4: after getPrimitives the primitives tile the index buffer in list
\* order, each with a positive multiple of 3 elements.
C4_PrimitivesTile ==
  pc = "done" =>
    /\ (Len(mPrimitives) > 0 => mPrimitives[1].start = 0)
    /\ \A p \in 2..Len(mPrimitives) :
         mPrimitives[p].start
           = mPrimitives[p - 1].start + mPrimitives[p - 1].numElements
    /\ \A p \in 1..Len(mPrimitives) :
         mPrimitives[p].numElements > 0 /\ mPrimitives[p].numElements % 3 = 0
    /\ (IF Len(mPrimitives) = 0 THEN 0
        ELSE Last(mPrimitives).start + Last(mPrimitives).numElements)
         = Len(mIndices)

\* The primitive p begins with a split: its first corner was written after a
\* clear of the tuple map that the last corner of p - 1 was written before.
BeginsWithSplit(p) ==
  cornerLog[mPrimitives[p].start + 1].epoch
    > cornerLog[mPrimitives[p].start].epoch

SourcePrimOf(p) == cornerLog[mPrimitives[p].start + 1].tuple.mPrim

\* C4 witness: one split fell on the first triangle of a primitive element
\* and another in the middle of one.
C4_Witness ==
  /\ pc = "done"
  /\ \E p \in 2..Len(mPrimitives) :
       BeginsWithSplit(p) /\ SourcePrimOf(p) # SourcePrimOf(p - 1)
  /\ \E p \in 2..Len(mPrimitives) :
       BeginsWithSplit(p) /\ SourcePrimOf(p) = SourcePrimOf(p - 1)

\* C5 as stated: corners of different primitive elements, or corners that
\* differ in which attributes they have, never get the same index.
C5_DistinctPrimsAndPresence ==
  \A a, b \in Written :
    (\/ cornerLog[a].tuple.mPrim # cornerLog[b].tuple.mPrim
     \/ Presence(cornerLog[a].tuple) # Presence(cornerLog[b].tuple))
      => mIndices[a] # mIndices[b]

\* ------------------------------------------------------- claims on the skin
\* The records of the output vertex iv, and the influences its source vertex
\* has in the skin: <<bone, weight>> by position.
RecordsOf(iv) == {k \in 1..Len(mWeight) : mVertexIndex[k] = iv}

OutVerts == 0..(Len(mVertTuples) - 1)

SourceCount(iv) == weights_vcount[mVertTuples[iv + 1].mVertex + 1]

SourceInfluence(iv, iw) ==
  LET offsets == VindicesOffsets(weights_vcount)
      pair == weights_v[(offsets[mVertTuples[iv + 1].mVertex + 1] \div 2) + iw]
  IN <<pair[1], ReaderValue(SkinWeights, pair[2])>>

NonEmpty(iv) ==
  {iw \in 1..SourceCount(iv) :
     SourceInfluence(iv, iw)[1] >= 0 /\ SourceInfluence(iv, iw)[2] # 0}

RatAdd(x, y) == <<x[1] * y[2] + y[1] * x[2], x[2] * y[2]>>

RECURSIVE WeightSumOf(_)
WeightSumOf(S) ==
  IF S = {} THEN <<0, 1>>
  ELSE LET k == CHOOSE k \in S : TRUE
       IN RatAdd(mWeight[k], WeightSumOf(S \ {k}))

SumsToOne(iv) ==
  WeightSumOf(RecordsOf(iv))[2] # 0
    /\ WeightSumOf(RecordsOf(iv))[1] = WeightSumOf(RecordsOf(iv))[2]

ZeroAndUnscaled(iv) ==
  /\ WeightSumOf(RecordsOf(iv))[1] = 0
  /\ \A k \in RecordsOf(iv) : mWeight[k][2] = 1

\* C6: after lookupSkinData the weights of every output vertex that has
\* records sum to 1, or sum to 0 and are left unscaled; normalisation never
\* divides by a total of 0.
C6_SumsToOneOrLeftUnscaled ==
  pc = "skinDone" =>
    /\ ~dividedByZero
    /\ \A iv \in OutVerts :
         RecordsOf(iv) # {} => SumsToOne(iv) \/ ZeroAndUnscaled(iv)

\* C7: no output vertex ever has more than maxBonePerVert bone influence
\* records, whatever its source influence list holds.
C7_AtMostCapRecords ==
  \A iv \in OutVerts : Cardinality(RecordsOf(iv)) <= MaxBonePerVert

\* A vertex whose source list is longer than the cap and mixes empty and
\* non-empty weights has exactly the cap of records.
C7_Witness ==
  /\ pc = "skinDone"
  /\ tooManyWeightsWarning
  /\ \E iv \in OutVerts :
       /\ Cardinality(NonEmpty(iv)) > MaxBonePerVert
       /\ Cardinality(NonEmpty(iv)) < SourceCount(iv)
       /\ Cardinality(RecordsOf(iv)) = MaxBonePerVert

Abs(x) == IF x < 0 THEN -x ELSE x

DistinctMagnitudes(iv) ==
  \A p, q \in NonEmpty(iv) :
    p # q => Abs(SourceInfluence(iv, p)[2]) # Abs(SourceInfluence(iv, q)[2])

Largest(iv) ==
  {SourceInfluence(iv, p) : p \in
     {p \in NonEmpty(iv) :
        Cardinality({q \in NonEmpty(iv) :
                       SourceInfluence(iv, q)[2] > SourceInfluence(iv, p)[2]})
          < MaxBonePerVert}}

Kept(iv) == {<<mBoneIndex[k], mWeight[k][1]>> : k \in RecordsOf(iv)}

\* C8: a vertex with more than maxBonePerVert non-empty influences of
\* distinct magnitudes keeps exactly the maxBonePerVert largest of them.
C8_KeepsLargest ==
  pc = "skinDone" =>
    \A iv \in OutVerts :
      (Cardinality(NonEmpty(iv)) > MaxBonePerVert /\ DistinctMagnitudes(iv))
        => Kept(iv) = Largest(iv)

\* C9 as stated: no record is created from or overwritten with a weight that
\* is zero or negative.
C9_NoWeightAtMostZero ==
  \A k \in 1..Len(mWeight) : mWeight[k][1] > 0

\* C9: the pairs skipped are those with a weight of exactly zero or a
\* negative bone index: no record holds such a pair, and every other pair,
\* a negative weight included, counts towards the records of its vertex.
C9_SkipsEmptyWeightsOnly ==
  /\ \A k \in 1..Len(mWeight) : mWeight[k][1] # 0 /\ mBoneIndex[k] >= 0
  /\ pc = "skinDone" =>
       \A iv \in OutVerts :
         /\ Kept(iv) \subseteq {SourceInfluence(iv, p) : p \in NonEmpty(iv)}
         /\ Cardinality(RecordsOf(iv))
              = Min(MaxBonePerVert, Cardinality(NonEmpty(iv)))

\* A vertex whose source list has a zero weight, a pair without a bone and a
\* negative weight: only the last became a record.
C9_Witness ==
  /\ pc = "skinDone"
  /\ \E iv \in OutVerts :
       /\ \E p \in 1..SourceCount(iv) : SourceInfluence(iv, p)[2] = 0
       /\ \E p \in 1..SourceCount(iv) : SourceInfluence(iv, p)[1] < 0
       /\ \E k \in RecordsOf(iv) : mWeight[k][1] < 0
       /\ Cardinality(RecordsOf(iv)) = 1
\* ------------------------------------------------------ claims on the morph
\* The base geometry's data as extracted, before any blending, and what a
\* target contributes for vertex iv (1-based): its own value of an
\* attribute it defines for the vertex, else the base's value.
BaseData ==
  GetVertexData(baseGeometry,
                [points |-> <<>>, norms |-> <<>>, colors |-> <<>>,
                 uvs |-> <<>>, uv2s |-> <<>>], TRUE)

TargetStreams(geom, iv) ==
  ReadInputs(geom.src, geom.prims[mVertTuples[iv].mPrim + 1])

TargetData(geom, iv) ==
  LET tuple   == mVertTuples[iv]
      streams == TargetStreams(geom, iv)
  IN [points |-> IF HasValue(streams.mPoints, tuple.mVertex)
                 THEN PointValue(streams, tuple) ELSE BaseData.points[iv],
      norms  |-> IF HasValue(streams.mNormals, tuple.mNormal)
                 THEN FlipZ(ReaderValue(streams.mNormals, tuple.mNormal))
                 ELSE BaseData.norms[iv],
      colors |-> IF HasValue(streams.mColors, tuple.mColor)
                 THEN ReaderValue(streams.mColors, tuple.mColor)
                 ELSE BaseData.colors[iv],
      uvs    |-> IF HasValue(streams.mUVs, tuple.mUV)
                 THEN UVValue(streams, tuple) ELSE BaseData.uvs[iv],
      uv2s   |-> IF HasValue(streams.mUV2s, tuple.mUV2)
                 THEN FlipY(ReaderValue(streams.mUV2s, tuple.mUV2))
                 ELSE BaseData.uv2s[iv]]

SingleTargetAtOne ==
  /\ pc = "locked"
  /\ isMorph
  /\ baseGeometry = MorphBaseGeometry
  /\ Len(targetGeoms) = 1
  /\ srcWeights = <<1>>

\* C10: a morph of the relative (non-normalized) method with one target of
\* weight 1 gives, for every vertex and for position, normal, both
\* texcoords and colour, the base value plus the target value.
C10_RelativeIsBasePlusTarget ==
  (SingleTargetAtOne /\ morphMethod = "RELATIVE") =>
    \A iv \in 1..VertexCount :
      LET target == TargetData(targetGeoms[1], iv)
      IN /\ mPoints[iv] = BaseData.points[iv] + target.points
         /\ mNormals[iv] = BaseData.norms[iv] + target.norms
         /\ mUVs[iv] = BaseData.uvs[iv] + target.uvs
         /\ mUV2s[iv] = BaseData.uv2s[iv] + target.uv2s
         /\ mColors[iv] = ColorAdd(BaseData.colors[iv], target.colors)

\* C11: a morph of the normalized method with one target of weight 1 gives,
\* for every vertex and for position, normal, both texcoords and colour,
\* the target value alone.
C11_NormalizedIsTargetAlone ==
  (SingleTargetAtOne /\ morphMethod = "NORMALIZED") =>
    \A iv \in 1..VertexCount :
      LET target == TargetData(targetGeoms[1], iv)
      IN /\ mPoints[iv] = target.points
         /\ mNormals[iv] = target.norms
         /\ mUVs[iv] = target.uvs
         /\ mUV2s[iv] = target.uv2s
         /\ mColors[iv] = target.colors

\* A target that lacks the primitive of some vertex tuple of the mesh.
Mismatched(geom) ==
  \E iv \in 1..VertexCount : Len(geom.prims) <= mVertTuples[iv].mPrim

\* C12: a target geometry that does not match the base geometry adds
\* nothing to the blended vertex data.
C12_MismatchedTargetAddsNothing ==
  [][(MorphTarget /\ Mismatched(targetGeoms[iTarget + 1]))
       => UNCHANGED <<mPoints, mNormals, mColors, mUVs, mUV2s>>]_vars

\* The blend of the morph's targets from target i on, with the weights
\* given, into the vectors v.
RECURSIVE BlendFrom(_, _, _, _)
BlendFrom(v, at, weights, i) ==
  IF i > Len(targetGeoms) THEN v
  ELSE IF weights[i] = 0 THEN BlendFrom(v, at, weights, i + 1)
  ELSE
    LET t == GetVertexData(targetGeoms[i],
               [points |-> CopyArray(v.points, at.points),
                norms  |-> CopyArray(v.norms, at.norms),
                colors |-> CopyArray(v.colors, at.colors),
                uvs    |-> CopyArray(v.uvs, at.uvs),
                uv2s   |-> CopyArray(v.uv2s, at.uv2s)], FALSE)
    IN BlendFrom([points |-> AddArray(v.points, at.points, t.points, weights[i]),
                  norms  |-> AddArray(v.norms, at.norms, t.norms, weights[i]),
                  colors |-> AddColors(v.colors, at.colors, t.colors, weights[i]),
                  uvs    |-> AddArray(v.uvs, at.uvs, t.uvs, weights[i]),
                  uv2s   |-> AddArray(v.uv2s, at.uv2s, t.uv2s, weights[i])],
                 at, weights, i + 1)

\* The vertex data of the morph with the weights given, one per target.
BlendOf(weights) ==
  LET v  == GetVertexData(baseGeometry,
              [points |-> <<>>, norms |-> <<>>, colors |-> <<>>,
               uvs |-> <<>>, uv2s |-> <<>>], TRUE)
      at == BaseArrays(v)
      weightSum == IF morphMethod = "NORMALIZED"
                   THEN ClampF(1 - SumOf(weights), 0, 1)
                   ELSE 1
  IN BlendFrom([points |-> ScaleArray(v.points, at.points, weightSum),
                norms  |-> ScaleArray(v.norms, at.norms, weightSum),
                colors |-> v.colors,
                uvs    |-> ScaleArray(v.uvs, at.uvs, weightSum),
                uv2s   |-> ScaleArray(v.uv2s, at.uv2s, weightSum)],
               at, weights, 1)

\* The weight list adjusted to the number of targets.
AdjustedWeights ==
  [i \in 1..Len(targetGeoms) |->
     IF i <= Len(srcWeights) THEN srcWeights[i] ELSE 0]

\* C13: with any numbers of targets and of weights, in both methods, the
\* vertex data of a morph is that of the morph with the weight list
\* adjusted to the targets: missing weights are 0, surplus weights ignored.
C13_BlendsWithAdjustedWeights ==
  (pc = "locked" /\ isMorph) => MeshVectors = BlendOf(AdjustedWeights)

\* The vectors the next target of the morph starts from, a copy of the base
\* data, and what getVertexData makes of them.
TargetCopy ==
  [points |-> CopyArray(mPoints, baseAt.points),
   norms  |-> CopyArray(mNormals, baseAt.norms),
   colors |-> CopyArray(mColors, baseAt.colors),
   uvs    |-> CopyArray(mUVs, baseAt.uvs),
   uv2s   |-> CopyArray(mUV2s, baseAt.uv2s)]

AtTarget == pc = "morphTargets" /\ iTarget < Len(targetGeoms)

NextTarget == targetGeoms[iTarget + 1]

Overlaid == GetVertexData(NextTarget, TargetCopy, FALSE)

\* The vertex loop of getVertexData on geom gets as far as vertex iv.
Visited(geom, iv) ==
  \A j \in 1..iv : mVertTuples[j].mPrim < Len(geom.prims)

\* The raw texcoords of vertex iv in geom, and whether it has them.
RawUV(geom, iv) == ReaderValue(TargetStreams(geom, iv).mUVs, mVertTuples[iv].mUV)

RawUV2(geom, iv) ==
  ReaderValue(TargetStreams(geom, iv).mUV2s, mVertTuples[iv].mUV2)

HasUV(geom, iv) ==
  Visited(geom, iv) /\ HasValue(TargetStreams(geom, iv).mUVs, mVertTuples[iv].mUV)

HasUV2(geom, iv) ==
  Visited(geom, iv)
    /\ HasValue(TargetStreams(geom, iv).mUV2s, mVertTuples[iv].mUV2)

\* C14: every texcoord a getVertexData call writes is 1 - y of the source
\* value y, across changes of primitive; in append mode that is every first
\* texcoord and every second texcoord the vertex has, and in overlay mode a
\* vertex without the texcoord keeps the value it had, flipped no more.
C14_TexcoordsFlippedOnce ==
  /\ (pc = "locked" /\ ~isMorph) =>
       \A iv \in 1..VertexCount :
         /\ mUVs[iv] = 1 - RawUV(baseGeometry, iv)
         /\ Len(mUV2s) > 0 =>
              mUV2s[iv] = IF HasUV2(baseGeometry, iv)
                          THEN 1 - RawUV2(baseGeometry, iv) ELSE heapFill
  /\ AtTarget =>
       LET copy == TargetCopy
           over == Overlaid
       IN \A iv \in 1..VertexCount :
            /\ over.uvs[iv] = IF HasUV(NextTarget, iv)
                               THEN 1 - RawUV(NextTarget, iv)
                               ELSE copy.uvs[iv]
            /\ Len(over.uv2s) > Len(copy.uv2s) =>
                 over.uv2s[Len(copy.uv2s) + iv] =
                   IF HasUV2(NextTarget, iv)
                   THEN 1 - RawUV2(NextTarget, iv) ELSE heapFill
            /\ \A k \in 1..Len(copy.uv2s) : over.uv2s[k] = copy.uv2s[k]

\* A plain geometry of two primitive elements, of which the first has
\* second texcoords, is locked.
C14_Witness ==
  /\ pc = "locked"
  /\ ~isMorph
  /\ Len(baseGeometry.prims) = 2
  /\ Len(mUV2s) = VertexCount
  /\ \E iv \in 1..VertexCount : mUV2s[iv] = 1 - RawUV2(baseGeometry, iv)
  /\ \E iv \in 1..VertexCount : mVertTuples[iv].mPrim = 1

\* Vertex iv has the optional attribute read by reader from raw index
\* field, in the base geometry.
HasOptional(reader, field, iv) ==
  HasValue(TargetStreams(baseGeometry, iv)[reader], mVertTuples[iv][field])

\* An optional vector after the lock of a plain geometry: allocated, once,
\* if any vertex has the attribute, and then written for each that has it.
AllocatedForAny(vec, reader, field) ==
  IF \E iv \in 1..VertexCount : HasOptional(reader, field, iv)
  THEN /\ Len(vec) = VertexCount
       /\ \A iv \in 1..VertexCount :
            HasOptional(reader, field, iv) => vec[iv] # heapFill
  ELSE vec = <<>>

\* C15: getVertexData allocates the normals, the colours and the second
\* texcoords when any vertex of the list has the attribute, at most once,
\* and then writes the value of every vertex that has it; a vector stays
\* unallocated only if no vertex has the attribute.
C15_OptionalArraysForAnyVertex ==
  (pc = "locked" /\ ~isMorph) =>
    /\ AllocatedForAny(mNormals, "mNormals", "mNormal")
    /\ AllocatedForAny(mColors, "mColors", "mColor")
    /\ AllocatedForAny(mUV2s, "mUV2s", "mUV2")

\* ------------------------------------------------- claims on the inputs
\* classifyInputs has seen every input.
Classified == pc \in {"readers", "streamsDone"}

\* The inputs of a semantic, and the order the slots are to follow: by set
\* number, and by place in the input array among equal set numbers.
OfSemantic(semantic) ==
  {n \in 1..Len(inputs) : inputs[n].semantic = semantic}

Before(m, n) ==
  NewSet(m) < NewSet(n) \/ (NewSet(m) = NewSet(n) /\ m < n)

\* The input of a semantic that r others of the semantic come before; 0 if
\* there is none.
Ranked(semantic, r) ==
  LET c == {n \in OfSemantic(semantic) :
              Cardinality({m \in OfSemantic(semantic) : Before(m, n)}) = r}
  IN IF c = {} THEN 0 ELSE CHOOSE n \in c : TRUE

\* C16: for every order of the inputs and for both input shapes, each slot
\* group holds the inputs of its semantic with the lowest set numbers in
\* ascending order, and among equal set numbers the first-seen input keeps
\* the earlier slot.
C16_LowestSetsFirstSeen ==
  Classified =>
    /\ sortedInputs[Normals] = Ranked("NORMAL", 0)
    /\ sortedInputs[Colors] = Ranked("COLOR", 0)
    /\ sortedInputs[UVs] = Ranked("TEXCOORD", 0)
    /\ sortedInputs[UV2s] = Ranked("TEXCOORD", 1)
    /\ OfSemantic("VERTEX") = {}
         => sortedInputs[Points] = Ranked("POSITION", 0)


\* The streams whose input has no source element to read: findInputSource
\* finds nothing, or the POSITION input of the <vertices> found has none.
Unresolved(i) ==
  /\ sortedInputs[i] # 0
  /\ inputs[sortedInputs[i]].source \in {"none", "unsourced"}

\* C17: when the source element of an input cannot be resolved, stream setup
\* fails softly: no null element is dereferenced, initSourceReader returns
\* failure with the reader left uninitialized, and the conversion goes on.
C17_UnresolvedFailsSoftly ==
  /\ ~nullDeref
  /\ pc # "crashed"
  /\ \A i \in 0..(NumStreams - 1) :
       (Classified /\ i < iStream /\ Unresolved(i))
         => readers[i] = "failed"


\* ----------------------------------------------- claims on the accessors
\* C18: every accessor call of getVertexData, in append mode and in overlay
\* mode, follows a range comparison: the index i it is given satisfies
\* 0 <= i < stream size, and an absent (-1) index never reaches an accessor.
C18_AccessorsCalledInRange ==
  \A c \in accessed : c.index >= 0 /\ c.index < c.size


\* ------------------------------------------------- claims on the winding
\* The slots of the index buffer a corner has written.
CornerWritten == {k \in 1..Len(cornerLog) : cornerLog[k].corner >= 0}

\* C19: the indices of a triangle's corners c0, c1, c2 stand in the
\* triangle's three consecutive slots in the order (c0, c1, c2) if
\* invertMeshes is set and (c2, c1, c0) if not; a slot is written by no
\* other triangle than its own.
C19_WindingOrder ==
  \A k \in CornerWritten :
    /\ cornerLog[k].tri = (k - 1) \div 3
    /\ cornerLog[k].corner = IF invertMeshes THEN (k - 1) % 3
                             ELSE 2 - ((k - 1) % 3)
    /\ mIndices[k] = cornerLog[k].index

\* Two triangles are written, reversed, the first of three different corners.
C19_Witness ==
  /\ pc = "done"
  /\ ~invertMeshes
  /\ Cardinality(CornerWritten) = 6
  /\ Cardinality({mIndices[k] : k \in 1..3}) = 3
  /\ cornerLog[1].corner = 2

\* In an inverted mesh the corners stand in their own order.
C19_WitnessInverted ==
  /\ pc = "done"
  /\ invertMeshes
  /\ Cardinality(CornerWritten) = 6
  /\ cornerLog[1].corner = 0


\* ------------------------------------------- claims on missing attributes
\* C20: when a target does not define an attribute for a vertex, the value
\* used as the target's contribution is the base geometry's extracted value
\* of the attribute for the vertex, whatever the method and whatever targets
\* were blended before.
C20_MissingAttributeIsBaseValue ==
  (AtTarget /\ baseGeometry = MorphBaseGeometry
     /\ targetWeights[iTarget + 1] # 0) =>
    LET over == Overlaid
        base == BaseData
    IN \A iv \in 1..VertexCount :
         LET tuple   == mVertTuples[iv]
             streams == TargetStreams(NextTarget, iv)
         IN /\ ~HasValue(streams.mPoints, tuple.mVertex)
                 => over.points[iv] = base.points[iv]
            /\ ~HasValue(streams.mNormals, tuple.mNormal)
                 => over.norms[iv] = base.norms[iv]
            /\ ~HasValue(streams.mColors, tuple.mColor)
                 => over.colors[iv] = base.colors[iv]
            /\ ~HasValue(streams.mUVs, tuple.mUV)
                 => over.uvs[iv] = base.uvs[iv]
            /\ ~HasValue(streams.mUV2s, tuple.mUV2)
                 => over.uv2s[iv] = base.uv2s[iv]


\* ---------------------------------------- claims on the built primitives
\* C21: primitives are built once per mesh: after a getPrimitives call that
\* left at least one primitive, no later call changes the primitive list, the
\* index buffer or the vertex list; and no step ever changes or moves an
\* entry the vertex list already has.
C21_BuiltOnce ==
  [][/\ built => UNCHANGED <<mPrimitives, mIndices, mVertTuples>>
     /\ \A i \in 1..Len(mVertTuples) :
          i <= Len(mVertTuples') /\ mVertTuples'[i] = mVertTuples[i]]_vars

\* getPrimitives has been called again on a mesh of two primitives.
C21_Witness ==
  /\ pc = "done"
  /\ built
  /\ calledAgain
  /\ Len(mPrimitives) >= 2
  /\ Len(mVertTuples) > 3


\* ------------------------------------------------ claims on the indices
\* After getPrimitives every slot of the index buffer was written exactly
\* once, with an index into the vertex list; no index names a padding entry.
SlotsWrittenOnce ==
  \A k \in 1..Len(mIndices) :
    /\ cornerLog[k].writes = 1
    /\ mIndices[k] >= 0
    /\ mIndices[k] < Len(mVertTuples)
    /\ (mIndices[k] + 1) \notin padding

C22_SharedVertex ==
  /\ pc = "done"
  /\ \E k \in 1..Len(mIndices) :
       /\ mVertTuples[mIndices[k] + 1] # cornerLog[k].tuple
       /\ KeyOf(mVertTuples[mIndices[k] + 1]) = KeyOf(cornerLog[k].tuple)


\* --------------------------------------------- claims on the base arrays
\* C23: in getMorphVertexData every read and write of the base arrays stays
\* inside the range the base extraction allocated, also for a base whose
\* first vertex has no normal or whose colours or second texcoords are
\* absent: no array is indexed outside [size - vertexCount, size).
C23_BaseArraysIndexedInside == ~overrun

====
